---- MODULE Spec2Model ----
(***************************************************************************)
(* ACASM Minnesota calculator (src/app.py): the RAG classifier, the state  *)
(* rollup, the arrivals recompute and the session history ledger.          *)
(*                                                                         *)
(* Numbers.  A pandas float cell is modelled as an extended rational       *)
(* <<n, d>>: d > 0 is the finite value n/d in lowest terms, <<0, 0>> is    *)
(* NaN, <<1, 0>> is +inf and <<-1, 0>> is -inf.  Arithmetic follows the    *)
(* float64 rules the code relies on (x/0 = +-inf, 0/0 = NaN, NaN           *)
(* propagates, comparisons with NaN are false); rounding is not modelled.  *)
(* Zero is unsigned: the inputs drawn below are non-negative, so no        *)
(* negative operand is ever multiplied or divided and -0.0 cannot arise.   *)
(*                                                                         *)
(* Text.  A string cell is a tuple of tokens; the token " " is one blank.  *)
(***************************************************************************)
EXTENDS Integers, Sequences, FiniteSets, TLC

VARIABLES
    df_out,      \* the unit table handed to the engine (Tableau_Export / recompute input)
    arrivals,    \* County_Arrivals sheet: [present, rows]
    history,     \* History sheet: [present, rows]
    weights_df,  \* state of the weights editor / override table: [present, rows]
    df,          \* the unit table the last run ended with
    s,           \* the last state rollup computed
    hist_state,  \* st.session_state["hist_state"], the ledger
    event,       \* the operator action that caused the last run
    prevEvent,   \* the operator action before that
    calls,       \* number of engine calls / snapshots appended so far
    ragcall,     \* arguments and result of the last rag() call
    manual       \* manual mode: the widget values and the metrics shown

vars == <<df_out, arrivals, history, weights_df, df, s, hist_state, event,
          prevEvent, calls, ragcall, manual>>

-----------------------------------------------------------------------------
(* Extended rationals *)

NaN == <<0, 0>>
PInf == <<1, 0>>
NInf == <<-1, 0>>

Abs(n) == IF n < 0 THEN -n ELSE n

RECURSIVE GCD(_, _)
GCD(a, b) == IF b = 0 THEN a ELSE GCD(b, a % b)

\* n/d in lowest terms, d # 0
Norm(n, d) ==
    LET g == GCD(Abs(n), Abs(d))
        sg == IF d < 0 THEN -1 ELSE 1
    IN  <<(sg * n) \div g, Abs(d) \div g>>

R(n) == <<n, 1>>
Zero == <<0, 1>>

isna(x) == x = NaN
notna(x) == x # NaN
IsInf(x) == x = PInf \/ x = NInf
IsFinite(x) == x[2] > 0
Sign(x) == IF x[1] > 0 THEN 1 ELSE IF x[1] < 0 THEN -1 ELSE 0

Neg(x) == <<-x[1], x[2]>>

Add(x, y) ==
    IF isna(x) \/ isna(y) THEN NaN
    ELSE IF IsInf(x) /\ IsInf(y) THEN (IF x = y THEN x ELSE NaN)
    ELSE IF IsInf(x) THEN x
    ELSE IF IsInf(y) THEN y
    ELSE Norm(x[1] * y[2] + y[1] * x[2], x[2] * y[2])

Sub(x, y) == Add(x, Neg(y))

Mul(x, y) ==
    IF isna(x) \/ isna(y) THEN NaN
    ELSE IF IsInf(x) \/ IsInf(y)
         THEN (IF Sign(x) * Sign(y) = 0 THEN NaN
               ELSE IF Sign(x) * Sign(y) > 0 THEN PInf ELSE NInf)
    ELSE Norm(x[1] * y[1], x[2] * y[2])

\* float64 true division as numpy/pandas perform it on a column
Div(x, y) ==
    IF isna(x) \/ isna(y) THEN NaN
    ELSE IF IsInf(x) /\ IsInf(y) THEN NaN
    ELSE IF IsInf(x) THEN (IF Sign(y) < 0 THEN Neg(x) ELSE x)
    ELSE IF IsInf(y) THEN Zero
    ELSE IF y[1] = 0
         THEN (IF x[1] = 0 THEN NaN ELSE IF x[1] > 0 THEN PInf ELSE NInf)
    ELSE Norm(x[1] * y[2], x[2] * y[1])

\* x > y and x >= y on floats: false as soon as one side is NaN
GT(x, y) ==
    /\ notna(x) /\ notna(y)
    /\ IF IsInf(x) \/ IsInf(y)
       THEN x # y /\ (x = PInf \/ y = NInf)
       ELSE x[1] * y[2] > y[1] * x[2]

GE(x, y) == notna(x) /\ notna(y) /\ (x = y \/ GT(x, y))

-----------------------------------------------------------------------------
(* rag *)

GreenDefault == <<3, 4>>
AmberDefault == <<17, 20>>

\* rag with a strict comparison at the amber threshold
ragStrictAmber(util, green, amber) ==
    IF isna(util) THEN ""
    ELSE IF GT(util, amber) THEN "RED"
    ELSE IF GE(util, green) THEN "AMBER"
    ELSE "GREEN"

rag(util, green, amber) ==
    IF isna(util) THEN ""
    ELSE IF GE(util, amber) THEN "RED"
    ELSE IF GE(util, green) THEN "AMBER"
    ELSE "GREEN"

rag1(util) == rag(util, GreenDefault, AmberDefault)

-----------------------------------------------------------------------------
(* Text cells *)

Alphabet == <<" ", "A", "B", "x", "y", "z">>

\* code-point order of the tokens used
Rank(c) == CHOOSE i \in 1..Len(Alphabet) : Alphabet[i] = c

RECURSIVE lstrip(_)
lstrip(str) == IF str # <<>> /\ Head(str) = " " THEN lstrip(Tail(str)) ELSE str

RECURSIVE rstrip(_)
rstrip(str) ==
    IF str # <<>> /\ str[Len(str)] = " "
    THEN rstrip(SubSeq(str, 1, Len(str) - 1))
    ELSE str

\* str.strip()
strip(str) == rstrip(lstrip(str))

\* Python's < on strings
RECURSIVE StrLess(_, _)
StrLess(a, b) ==
    IF b = <<>> THEN FALSE
    ELSE IF a = <<>> THEN TRUE
    ELSE IF Head(a) # Head(b) THEN Rank(Head(a)) < Rank(Head(b))
    ELSE StrLess(Tail(a), Tail(b))

-----------------------------------------------------------------------------
(* Column helpers *)

\* Series.fillna(other), cell by cell
fillna(x, other) == IF isna(x) THEN other ELSE x

\* Series.sum(skipna=True)
RECURSIVE sum_skipna(_)
sum_skipna(col) ==
    IF col = <<>> THEN Zero
    ELSE IF isna(Head(col)) THEN sum_skipna(Tail(col))
    ELSE Add(Head(col), sum_skipna(Tail(col)))

Col(table, f) == [i \in 1..Len(table) |-> table[i][f]]

NoTable == [present |-> FALSE, rows |-> <<>>]
Table(rows) == [present |-> TRUE, rows |-> rows]

\* `t is None or t.empty`
absent_or_empty(t) == ~t.present \/ t.rows = <<>>

-----------------------------------------------------------------------------
(* recompute_from_arrivals *)

FallbackBuffer == <<3, 10>>

\* lines 59-60 and 64: the key columns, trimmed
strip_arrival(r) ==
    [r EXCEPT !.County = strip(r.County), !.Category = strip(r.Category)]

strip_weight(r) == [r EXCEPT !.Category = strip(r.Category)]

\* a.merge(w, on="Category", how="left", suffixes=("", "_new")): every left row
\* once per right row with its key, or once with Weight_new missing
RECURSIVE merge_weights(_, _)
merge_weights(a, w) ==
    IF a = <<>> THEN <<>>
    ELSE LET r == Head(a)
             m == SelectSeq(w, LAMBDA x : x.Category = r.Category)
             joined ==
                 IF m = <<>>
                 THEN << [County |-> r.County, Category |-> r.Category,
                          Count |-> r.Count, Weight |-> r.Weight,
                          Weight_new |-> NaN] >>
                 ELSE [i \in 1..Len(m) |->
                         [County |-> r.County, Category |-> r.Category,
                          Count |-> r.Count, Weight |-> r.Weight,
                          Weight_new |-> m[i].Weight]]
         IN  joined \o merge_weights(Tail(a), w)

\* lines 62-67: the arrivals with the override weights applied
apply_weights(a, weights) ==
    IF absent_or_empty(weights) THEN a
    ELSE LET w == [i \in 1..Len(weights.rows) |-> strip_weight(weights.rows[i])]
             j == merge_weights(a, w)
         IN  [i \in 1..Len(j) |->
                [County |-> j[i].County, Category |-> j[i].Category,
                 Count |-> j[i].Count,
                 Weight |-> fillna(j[i].Weight_new, j[i].Weight)]]

\* lines 69-71: Points_calc of one arrivals row
Points_calc(r) == Mul(fillna(r.Count, Zero), fillna(r.Weight, Zero))

\* line 72: the groups of a.groupby("County") and their AP_calc
ap_counties(a) == {a[i].County : i \in 1..Len(a)}

AP_calc(a, county) ==
    LET g == SelectSeq(a, LAMBDA r : r.County = county)
    IN  sum_skipna([i \in 1..Len(g) |-> Points_calc(g[i])])

\* merge_ap adding AP_calc to the AP already in the row
merge_apAccumulate(r, a) ==
    LET c == strip(r.County)
    IN  [r EXCEPT !.County = c,
                  !.AP = IF c \in ap_counties(a)
                         THEN Add(fillna(r.AP, Zero), AP_calc(a, c)) ELSE r.AP]

\* merge_ap filling the AP of units without arrival rows with 0
merge_apZeroFill(r, a) ==
    LET c == strip(r.County)
    IN  [r EXCEPT !.County = c,
                  !.AP = IF c \in ap_counties(a) THEN AP_calc(a, c) ELSE Zero]

\* lines 74-78: one unit row after the left merge with ap_by
merge_ap(r, a) ==
    LET c == strip(r.County)
    IN  [r EXCEPT !.County = c,
                  !.AP = IF c \in ap_counties(a)
                         THEN fillna(AP_calc(a, c), r.AP) ELSE r.AP]

\* recompute_dependent without the Gap assignment of line 84
recompute_dependentStaleGap(r) ==
    LET cap == Mul(r.FTE_on, r.P_eff)
        util == Div(r.AP, cap)
    IN  [r EXCEPT !.Utilization = util,
                  !.Backlog_End = Sub(Add(r.Backlog_Start, r.AP), cap),
                  !.FTE_required = Add(Div(r.AP, r.P_eff), FallbackBuffer),
                  !.RAG = rag1(util)]

\* lines 81-85: the dependent fields of one unit row
recompute_dependent(r) ==
    LET cap == Mul(r.FTE_on, r.P_eff)
        util == Div(r.AP, cap)
        req == Add(Div(r.AP, r.P_eff), FallbackBuffer)
    IN  [r EXCEPT !.Utilization = util,
                  !.Backlog_End = Sub(Add(r.Backlog_Start, r.AP), cap),
                  !.FTE_required = req,
                  !.Gap = Sub(req, r.FTE_on),
                  !.RAG = rag1(util)]

recompute_from_arrivals(units, arr, weights) ==
    IF absent_or_empty(arr) THEN units
    ELSE LET a0 == [i \in 1..Len(arr.rows) |-> strip_arrival(arr.rows[i])]
             a == apply_weights(a0, weights)
         IN  [i \in 1..Len(units) |-> recompute_dependent(merge_ap(units[i], a))]

-----------------------------------------------------------------------------
(* compute_state_rollup *)

\* compute_state_rollup with Util_state taken as the mean of the Utilization column
compute_state_rollupMeanOfRatios(t) ==
    LET ap_state == sum_skipna(Col(t, "AP"))
        cap_state == sum_skipna([i \in 1..Len(t) |-> Mul(t[i].FTE_on, t[i].P_eff)])
        present == SelectSeq(Col(t, "Utilization"), notna)
    IN  [AP_state |-> ap_state,
         Capacity_state |-> cap_state,
         Util_state |-> IF GT(cap_state, Zero)
                        THEN Div(sum_skipna(present), R(Len(present))) ELSE NaN,
         FTE_required_state |-> sum_skipna(Col(t, "FTE_required")),
         FTE_on_state |-> sum_skipna(Col(t, "FTE_on")),
         Gap_state |-> sum_skipna(Col(t, "Gap")),
         Backlog_Start_state |-> sum_skipna(Col(t, "Backlog_Start")),
         Backlog_End_state |-> sum_skipna(Col(t, "Backlog_End"))]

compute_state_rollup(t) ==
    LET ap_state == sum_skipna(Col(t, "AP"))
        cap_state == sum_skipna([i \in 1..Len(t) |-> Mul(t[i].FTE_on, t[i].P_eff)])
    IN  [AP_state |-> ap_state,
         Capacity_state |-> cap_state,
         Util_state |-> IF GT(cap_state, Zero) THEN Div(ap_state, cap_state) ELSE NaN,
         FTE_required_state |-> sum_skipna(Col(t, "FTE_required")),
         FTE_on_state |-> sum_skipna(Col(t, "FTE_on")),
         Gap_state |-> sum_skipna(Col(t, "Gap")),
         Backlog_Start_state |-> sum_skipna(Col(t, "Backlog_Start")),
         Backlog_End_state |-> sum_skipna(Col(t, "Backlog_End"))]

NoRollup ==
    [AP_state |-> NaN, Capacity_state |-> NaN, Util_state |-> NaN,
     FTE_required_state |-> NaN, FTE_on_state |-> NaN, Gap_state |-> NaN,
     Backlog_Start_state |-> NaN, Backlog_End_state |-> NaN]

-----------------------------------------------------------------------------
(* Weights editor and history ledger of the upload mode *)

\* .drop_duplicates(subset=["Category"]): the first row of every Category
RECURSIVE drop_duplicates(_)
drop_duplicates(rows) ==
    IF rows = <<>> THEN <<>>
    ELSE LET n == Len(rows)
             init == drop_duplicates(SubSeq(rows, 1, n - 1))
         IN  IF \E i \in 1..(n - 1) : rows[i].Category = rows[n].Category
             THEN init ELSE Append(init, rows[n])

\* .sort_values("Category") of rows with distinct categories
RECURSIVE sort_values(_)
sort_values(rows) ==
    IF rows = <<>> THEN <<>>
    ELSE LET m == CHOOSE i \in 1..Len(rows) :
                    \A j \in 1..Len(rows) :
                        j = i \/ StrLess(rows[i].Category, rows[j].Category)
             rest == [k \in 1..(Len(rows) - 1) |->
                        IF k < m THEN rows[k] ELSE rows[k + 1]]
         IN  <<rows[m]>> \o sort_values(rest)

\* lines 109-115: the table the weights editor opens with
cats(arr) ==
    LET cw == [i \in 1..Len(arr.rows) |->
                 [Category |-> arr.rows[i].Category, Weight |-> arr.rows[i].Weight]]
    IN  sort_values(drop_duplicates(SelectSeq(cw, LAMBDA r : notna(r.Weight))))

\* lines 107-121: weights_df before any edit
weights_editor(arr) == IF absent_or_empty(arr) THEN NoTable ELSE Table(cats(arr))

StateName == <<"Minnesota (Statewide)">>

\* lines 241-243: the unit rows of a snapshot
snap(t, new_period) ==
    [i \in 1..Len(t) |->
        [County |-> t[i].County, Period |-> new_period, Level |-> "County",
         AP |-> t[i].AP, CPF |-> t[i].CPF, P_ref |-> t[i].P_ref,
         P_eff |-> t[i].P_eff, FTE_on |-> t[i].FTE_on,
         Utilization |-> t[i].Utilization,
         Backlog_Start |-> t[i].Backlog_Start, Backlog_End |-> t[i].Backlog_End,
         FTE_required |-> t[i].FTE_required, Gap |-> t[i].Gap, RAG |-> t[i].RAG]]

\* lines 245-261
state_row(t, new_period) ==
    LET srow == compute_state_rollup(t)
    IN  [County |-> StateName, Period |-> new_period, Level |-> "State",
         AP |-> srow.AP_state, Utilization |-> srow.Util_state,
         FTE_required |-> srow.FTE_required_state,
         FTE_on |-> srow.FTE_on_state, Gap |-> srow.Gap_state,
         Backlog_Start |-> srow.Backlog_Start_state,
         Backlog_End |-> srow.Backlog_End_state,
         P_eff |-> NaN, CPF |-> NaN, P_ref |-> NaN,
         RAG |-> rag1(srow.Util_state)]

\* append_snapshot replacing the rows of a period already in the ledger
append_snapshotReplace(ledger, t, new_period) ==
    SelectSeq(ledger, LAMBDA r : r.Period # new_period)
        \o snap(t, new_period) \o <<state_row(t, new_period)>>

\* lines 262-263: the ledger after "Append snapshot"
append_snapshot(ledger, t, new_period) ==
    ledger \o (snap(t, new_period) \o <<state_row(t, new_period)>>)

\* one run of the script in upload mode (lines 97-263): the table it ends
\* with, given whether the recompute button was the widget clicked
run_df(units, arr, weights, recompute_clicked) ==
    IF ~absent_or_empty(arr) /\ recompute_clicked
    THEN recompute_from_arrivals(units, arr, weights)
    ELSE units

-----------------------------------------------------------------------------
(* Manual mode (single county) *)

NoMetrics ==
    [p_ref |-> NaN, cpf |-> NaN, p_eff |-> NaN, cap_eff |-> NaN, util |-> NaN,
     backlog_end |-> NaN, fte_required |-> NaN, gap |-> NaN, rag |-> "?"]

\* lines 283-312 and 320: the metrics shown for the widget values w
manual_metrics(w) ==
    LET p_ref == Div(w.completed_points_base, w.avg_fte_base)
        cpf == IF GT(w.wbar_baseline, Zero)
               THEN Div(w.wbar_current, w.wbar_baseline) ELSE R(1)
        p_eff == IF GT(cpf, Zero) THEN Div(p_ref, cpf) ELSE Zero
        cap_eff == Mul(w.fte_on, p_eff)
        util == IF GT(cap_eff, Zero) THEN Div(w.ap, cap_eff) ELSE NaN
        fte_required == IF GT(p_eff, Zero) THEN Add(Div(w.ap, p_eff), w.buffer) ELSE NaN
    IN  [p_ref |-> p_ref, cpf |-> cpf, p_eff |-> p_eff, cap_eff |-> cap_eff,
         util |-> util,
         backlog_end |-> Sub(Add(w.backlog_start, w.ap), cap_eff),
         fte_required |-> fte_required,
         gap |-> IF notna(fte_required) THEN Sub(fte_required, w.fte_on) ELSE NaN,
         rag |-> rag1(util)]

NoManual ==
    [w |-> [fte_on |-> NaN, buffer |-> NaN, backlog_start |-> NaN,
            completed_points_base |-> NaN, avg_fte_base |-> NaN,
            wbar_current |-> NaN, wbar_baseline |-> NaN, ap |-> NaN],
     m |-> NoMetrics]

-----------------------------------------------------------------------------
(* Bounds and input domains *)

MaxUnits == 2
MaxArrivals == 2
MaxAppends == 2
MaxCalls == 2

\* the sequences over S of length lo..hi
SeqsBetween(S, lo, hi) == UNION {[1..n -> S] : n \in lo..hi}

\* a Tableau_Export row as uploaded: the dependent cells are whatever the
\* workbook holds, here values no formula of the engine yields for the row
UnitRow(county, ap, fte_on, p_eff) ==
    [County |-> county, AP |-> ap, CPF |-> R(1), P_ref |-> p_eff,
     P_eff |-> p_eff, FTE_on |-> fte_on, Utilization |-> <<1, 2>>,
     Backlog_Start |-> R(5), Backlog_End |-> R(1), FTE_required |-> R(4),
     Gap |-> R(2), RAG |-> "GREEN"]

CountyCells == {<<"A">>, <<"B", " ">>}

\* unit rows that differ in their key only
KeyUnitRows == {UnitRow(c, R(7), R(2), R(10)) : c \in CountyCells}

\* unit rows with positive, zero and undefined capacity
CapacityCells == {<<R(2), R(10)>>, <<R(0), R(10)>>, <<R(2), R(0)>>, <<R(2), NaN>>}
ChainUnitRows ==
    {UnitRow(c, ap, k[1], k[2]) : c \in CountyCells, ap \in {R(7), NaN}, k \in CapacityCells}

ArrivalRows ==
    { [County |-> <<"A">>, Category |-> <<"x">>, Count |-> R(3), Weight |-> R(1)],
      [County |-> <<"A">>, Category |-> <<"x", " ">>, Count |-> R(5), Weight |-> R(2)],
      [County |-> <<" ", "B">>, Category |-> <<"x">>, Count |-> NaN, Weight |-> R(1)],
      [County |-> <<" ", "B">>, Category |-> <<"y">>, Count |-> R(2), Weight |-> NaN] }

OverrideRows ==
    { [Category |-> <<"x">>, Weight |-> R(2)],
      [Category |-> <<"x", " ">>, Weight |-> R(4)],
      [Category |-> <<"y">>, Weight |-> NaN],
      [Category |-> <<"z">>, Weight |-> R(9)] }

OptionalTables(S, hi) == {NoTable} \cup {Table(q) : q \in SeqsBetween(S, 0, hi)}

\* override tables are what the editor holds: one row per distinct Category
\* cell, in Category order (lines 112-113)
OverrideTables(hi) ==
    {NoTable} \cup
    {Table(q) : q \in {x \in SeqsBetween(OverrideRows, 0, hi) :
                         \A i \in 1..(Len(x) - 1) :
                             StrLess(x[i].Category, x[i + 1].Category)}}

-----------------------------------------------------------------------------
(* rag as a function: SpecRag *)

UtilValues ==
    {NaN, PInf, NInf, R(-1), R(0), <<1, 2>>, <<3, 4>>, <<4, 5>>, <<17, 20>>,
     <<9, 10>>, R(1), R(2)}
ThresholdValues == {<<1, 2>>, <<3, 4>>, <<17, 20>>, R(1)}

NoRag == [util |-> NaN, green |-> GreenDefault, amber |-> AmberDefault, out |-> "?"]

InitRag ==
    /\ \E u \in UtilValues, g \in ThresholdValues, a \in ThresholdValues :
          /\ GT(a, g)
          /\ ragcall = [util |-> u, green |-> g, amber |-> a, out |-> "?"]
    /\ df_out = <<>> /\ arrivals = NoTable /\ history = NoTable
    /\ weights_df = NoTable /\ df = <<>> /\ s = NoRollup /\ hist_state = <<>>
    /\ event = "init" /\ prevEvent = "none" /\ calls = 0
    /\ manual = NoManual

CallRag ==
    /\ ragcall.out = "?"
    /\ ragcall' = [ragcall EXCEPT !.out = rag(ragcall.util, ragcall.green, ragcall.amber)]
    /\ event' = "rag" /\ prevEvent' = event
    /\ UNCHANGED <<df_out, arrivals, history, weights_df, df, s, hist_state, calls, manual>>

NextRag == CallRag

SpecRag == InitRag /\ [][NextRag]_vars

-----------------------------------------------------------------------------
(* compute_state_rollup as a function: SpecRollup *)

UnitNames == << <<"A">>, <<"B">>, <<"x">>, <<"y">> >>

RollupCells ==
    {<<ap, f, p>> : ap \in {NaN, R(10), R(100)}, f \in {R(1), R(10)},
                    p \in {NaN, R(0), R(100)}}

\* unit tables as the engine leaves them: every row with its dependent chain
RollupTables ==
    {[i \in 1..Len(q) |->
        recompute_dependent(UnitRow(UnitNames[i], q[i][1], q[i][2], q[i][3]))] :
     q \in SeqsBetween(RollupCells, 1, MaxUnits)}

InitRollup ==
    /\ df \in RollupTables
    /\ df_out = df /\ arrivals = NoTable /\ history = NoTable
    /\ weights_df = NoTable /\ s = NoRollup /\ hist_state = <<>>
    /\ event = "init" /\ prevEvent = "none" /\ calls = 0 /\ ragcall = NoRag
    /\ manual = NoManual

CallRollup ==
    /\ event = "init"
    /\ s' = compute_state_rollup(df)
    /\ event' = "rollup" /\ prevEvent' = event
    /\ UNCHANGED <<df_out, arrivals, history, weights_df, df, hist_state, calls, ragcall, manual>>

NextRollup == CallRollup

SpecRollup == InitRollup /\ [][NextRollup]_vars

-----------------------------------------------------------------------------
(* recompute_from_arrivals as a function: SpecRecompute *)

\* rich arrivals and override tables over unit tables that differ in their keys
InitAggregation ==
    /\ df_out \in SeqsBetween(KeyUnitRows, 1, MaxUnits)
    /\ arrivals \in OptionalTables(ArrivalRows, MaxArrivals)
    /\ weights_df \in OverrideTables(MaxArrivals)

\* rich unit tables over one-row arrivals
InitChain ==
    /\ df_out \in SeqsBetween(ChainUnitRows, 1, MaxUnits)
    /\ arrivals \in {Table(<<r>>) : r \in {x \in ArrivalRows : x.Category = <<"x">>}}
    /\ weights_df = NoTable

InitRecompute ==
    /\ InitAggregation \/ InitChain
    /\ df = df_out /\ history = NoTable /\ s = NoRollup /\ hist_state = <<>>
    /\ event = "init" /\ prevEvent = "none" /\ calls = 0 /\ ragcall = NoRag
    /\ manual = NoManual

\* the engine applied to the table it last returned
CallRecompute ==
    /\ calls < MaxCalls
    /\ df' = recompute_from_arrivals(df, arrivals, weights_df)
    /\ calls' = calls + 1
    /\ event' = "recompute" /\ prevEvent' = event
    /\ UNCHANGED <<df_out, arrivals, history, weights_df, s, hist_state, ragcall, manual>>

NextRecompute == CallRecompute

SpecRecompute == InitRecompute /\ [][NextRecompute]_vars

-----------------------------------------------------------------------------
(* The upload-mode session: Spec *)
(* Every operator action reruns the script from line 1: the workbook is    *)
(* parsed again, a button reads True only in the run its own click caused, *)
(* and only the editor's cells and st.session_state survive between runs.  *)

SessionArrivals ==
    {NoTable} \cup
    {Table(q) : q \in {<<r>> : r \in {x \in ArrivalRows : x.County = <<"A">>}}} \cup
    {Table(<<r1, r2>>) : r1, r2 \in {x \in ArrivalRows : x.County = <<"A">>}}

Periods == {"2025 Q4", "2026 Q1"}
EditedWeights == {R(2)}

\* a History sheet: one statewide row of an earlier period
SeedHistory ==
    << [County |-> StateName, Period |-> "2025 Q3", Level |-> "State",
        AP |-> R(6), Utilization |-> <<3, 10>>, FTE_required |-> R(3),
        FTE_on |-> R(2), Gap |-> R(1), Backlog_Start |-> R(0),
        Backlog_End |-> R(0), P_eff |-> NaN, CPF |-> NaN, P_ref |-> NaN,
        RAG |-> "GREEN"] >>

Init ==
    /\ df_out \in SeqsBetween(KeyUnitRows, 1, MaxUnits)
    /\ arrivals \in SessionArrivals
    /\ history \in {NoTable, Table(SeedHistory)}
    /\ weights_df = weights_editor(arrivals)
    /\ df = df_out
    /\ s = compute_state_rollup(df_out)
    /\ hist_state = (IF history.present THEN history.rows ELSE <<>>)
    /\ event = "upload" /\ prevEvent = "none" /\ calls = 0 /\ ragcall = NoRag
    /\ manual = NoManual

\* the operator edits one Weight cell of the editor (the Category cells are
\* left as loaded); no button is clicked
EditWeight ==
    /\ weights_df.present
    /\ \E i \in 1..Len(weights_df.rows), w \in EditedWeights :
          /\ weights_df.rows[i].Weight # w
          /\ weights_df' = [weights_df EXCEPT !.rows[i].Weight = w]
    /\ df' = run_df(df_out, arrivals, weights_df', FALSE)
    /\ s' = compute_state_rollup(df')
    /\ event' = "edit" /\ prevEvent' = event
    /\ UNCHANGED <<df_out, arrivals, history, hist_state, calls, ragcall, manual>>

\* "Recompute using edited weights" (lines 122-123)
ClickRecompute ==
    /\ ~absent_or_empty(arrivals)
    /\ df' = run_df(df_out, arrivals, weights_df, TRUE)
    /\ s' = compute_state_rollup(df')
    /\ event' = "recompute" /\ prevEvent' = event
    /\ UNCHANGED <<df_out, arrivals, history, weights_df, hist_state, calls, ragcall, manual>>

\* "Append snapshot (all counties + state)" (lines 239-263)
ClickAppend ==
    /\ calls < MaxAppends
    /\ \E new_period \in Periods :
          /\ df' = run_df(df_out, arrivals, weights_df, FALSE)
          /\ hist_state' = append_snapshot(hist_state, df', new_period)
    /\ s' = compute_state_rollup(df')
    /\ calls' = calls + 1
    /\ event' = "append" /\ prevEvent' = event
    /\ UNCHANGED <<df_out, arrivals, history, weights_df, ragcall, manual>>

\* any other widget (county selector, map metric): a plain rerun
SelectCounty ==
    /\ event # "select"
    /\ df' = run_df(df_out, arrivals, weights_df, FALSE)
    /\ s' = compute_state_rollup(df')
    /\ event' = "select" /\ prevEvent' = event
    /\ UNCHANGED <<df_out, arrivals, history, weights_df, hist_state, calls, ragcall, manual>>

Next == EditWeight \/ ClickRecompute \/ ClickAppend \/ SelectCounty

Spec == Init /\ [][Next]_vars

-----------------------------------------------------------------------------
(* Claims about rag (SpecRag) *)

LT(x, y) == GT(y, x)

\* C4: for thresholds green < amber, rag(u, green, amber) is RED iff
\* u >= amber, AMBER iff green <= u < amber, GREEN iff u < green and the
\* undefined category "" iff u is NaN; the result is always one of the four.
C4_RagPartition ==
    ragcall.out # "?" =>
        LET u == ragcall.util
            g == ragcall.green
            a == ragcall.amber
        IN  /\ ragcall.out \in {"RED", "AMBER", "GREEN", ""}
            /\ (ragcall.out = "RED") <=> GE(u, a)
            /\ (ragcall.out = "AMBER") <=> (GE(u, g) /\ LT(u, a))
            /\ (ragcall.out = "GREEN") <=> LT(u, g)
            /\ (ragcall.out = "") <=> (u = NaN)

\* a value sitting exactly on a non-default amber threshold has been classified
C4_Witness ==
    /\ ragcall.out = "RED"
    /\ ragcall.util = ragcall.amber
    /\ ragcall.amber # AmberDefault

-----------------------------------------------------------------------------
(* Claims about compute_state_rollup (SpecRollup) *)

\* the sum of f[i] over the indices in I, undefined cells left out
RECURSIVE SumOver(_, _)
SumOver(I, f) ==
    IF I = {} THEN Zero
    ELSE LET i == CHOOSE k \in I : TRUE
         IN  IF f[i] = NaN THEN SumOver(I \ {i}, f)
             ELSE Add(f[i], SumOver(I \ {i}, f))

Units == 1..Len(df)
Capacity(i) == Mul(df[i].FTE_on, df[i].P_eff)
APs == [i \in Units |-> df[i].AP]
Capacities == [i \in Units |-> Capacity(i)]
Utilizations == [i \in Units |-> df[i].Utilization]

RatioOf(ap, cap) == IF GT(cap, Zero) THEN Div(ap, cap) ELSE NaN

\* capacities all positive, so every per-unit utilization is a finite number
AllDefined == \A i \in Units : GT(Capacity(i), Zero) /\ df[i].AP # NaN
MeanUtilization == Div(SumOver(Units, Utilizations), R(Len(df)))
UnequalCapacities == \E i, j \in Units : Capacity(i) # Capacity(j)

\* N * N * covariance of capacity and utilization over the units
Covariation ==
    LET n == R(Len(df))
        c == SumOver(Units, Capacities)
        u == SumOver(Units, Utilizations)
    IN  SumOver(Units,
            [i \in Units |-> Mul(Sub(Mul(n, Capacity(i)), c),
                                 Sub(Mul(n, df[i].Utilization), u))])

RatioOfSums ==
    event = "rollup" =>
        s.Util_state = RatioOf(SumOver(Units, APs), SumOver(Units, Capacities))

\* C1 as stated: Util_state is sum(AP) / sum(FTE_on * P_eff) when that
\* capacity is positive and undefined otherwise, and it differs from the mean
\* of the per-unit utilizations for every table with unequal capacities.
C1_Original ==
    /\ RatioOfSums
    /\ (event = "rollup" /\ AllDefined /\ UnequalCapacities)
           => s.Util_state # MeanUtilization

\* C1 amended: Util_state is sum(AP) / sum(FTE_on * P_eff) when that capacity
\* is positive and undefined otherwise; over units of positive capacity it
\* differs from the mean utilization exactly when capacity and utilization
\* co-vary, which for two units means unequal capacities and unequal
\* utilizations; unequal capacities alone do not make it differ.
C1_RatioOfSums ==
    /\ RatioOfSums
    /\ (event = "rollup" /\ AllDefined) =>
          /\ (s.Util_state # MeanUtilization) <=> (Covariation # Zero)
          /\ Len(df) = 2 =>
                ((s.Util_state # MeanUtilization) <=>
                    /\ Capacity(1) # Capacity(2)
                    /\ df[1].Utilization # df[2].Utilization)

\* the example table: (AP=100, cap=100) and (AP=10, cap=1000) rolled up
C1_Witness ==
    /\ event = "rollup" /\ Len(df) = 2
    /\ df[1].AP = R(100) /\ Capacity(1) = R(100)
    /\ df[2].AP = R(10) /\ Capacity(2) = R(1000)
    /\ s.Util_state = <<1, 10>>
    /\ MeanUtilization = <<101, 200>>

\* C3: when one unit has undefined P_eff and a present AP, Util_state is
\* sum(AP) / sum(FTE_on * P_eff) over the remaining units: the undefined unit
\* adds to neither the numerator nor the denominator.
C3_UndefinedUnitContained ==
    \A i \in Units :
        ( /\ event = "rollup"
          /\ df[i].P_eff = NaN /\ df[i].AP # NaN
          /\ \A j \in Units \ {i} : df[j].P_eff # NaN /\ df[j].AP # NaN )
        => s.Util_state = RatioOf(SumOver(Units \ {i}, APs),
                                  SumOver(Units \ {i}, Capacities))

-----------------------------------------------------------------------------
(* Claims about recompute_from_arrivals (SpecRecompute) *)

Recomputed == event = "recompute" /\ ~absent_or_empty(arrivals)

\* the arrival records of a unit, by trimmed name
RecordsOf(county) ==
    {k \in 1..Len(arrivals.rows) : strip(arrivals.rows[k].County) = strip(county)}

\* the override rows a record's trimmed category selects
OverridesOf(k) ==
    IF ~weights_df.present THEN {}
    ELSE {m \in 1..Len(weights_df.rows) :
            strip(weights_df.rows[m].Category) = strip(arrivals.rows[k].Category)}

\* count x w of record k, w read from override row m (0: no override row);
\* malformed numbers count as 0
ClaimedPoints(k, m) ==
    Mul(fillna(arrivals.rows[k].Count, Zero),
        fillna(IF m = 0 THEN arrivals.rows[k].Weight ELSE weights_df.rows[m].Weight,
               Zero))

\* the values "sum of count x w, each record once" can take for a unit: one
\* per way of reading "the override weight" where several rows match
ClaimedAPs(county) ==
    LET recs == RecordsOf(county)
        pick == {f \in [recs -> 0..Len(weights_df.rows)] :
                    \A k \in recs :
                        IF OverridesOf(k) = {} THEN f[k] = 0 ELSE f[k] \in OverridesOf(k)}
    IN  {SumOver(recs, [k \in recs |-> ClaimedPoints(k, f[k])]) : f \in pick}

\* the override table without the rows that match no arrival record
MatchedOverrides ==
    [weights_df EXCEPT !.rows =
        SelectSeq(weights_df.rows,
                  LAMBDA w : \E k \in 1..Len(arrivals.rows) :
                                strip(arrivals.rows[k].Category) = strip(w.Category))]

\* C5: with arrivals and an override table, the AP of every unit that has
\* arrival rows is the sum over its records of count x w, every record
\* counted once, w the override weight where the trimmed categories match
\* and the record's own weight otherwise; override rows matching no record
\* change no AP.
C5_WeightedArrivalSum ==
    (Recomputed /\ weights_df.present) =>
        /\ \A i \in 1..Len(df) :
              RecordsOf(df[i].County) # {} => df[i].AP \in ClaimedAPs(df[i].County)
        /\ Col(df, "AP") =
              Col(recompute_from_arrivals(df_out, arrivals, MatchedOverrides), "AP")

LE(x, y) == GE(y, x)

\* C6: a recomputed record has undefined Utilization whenever
\* FTE_on x P_eff <= 0, undefined FTE_required and Gap whenever P_eff <= 0,
\* and the undefined RAG whenever Utilization is undefined.
C6_NonPositiveCapacityUndefined ==
    Recomputed =>
        \A i \in 1..Len(df) :
            /\ LE(Mul(df[i].FTE_on, df[i].P_eff), Zero) => df[i].Utilization = NaN
            /\ LE(df[i].P_eff, Zero) => (df[i].FTE_required = NaN /\ df[i].Gap = NaN)
            /\ df[i].Utilization = NaN => df[i].RAG = ""

\* C7: recompute_from_arrivals applied to its own result, with the same
\* arrivals and override table, returns that result with every field of
\* every unit unchanged.
C7_RecomputeIdempotent ==
    calls >= 1 => recompute_from_arrivals(df, arrivals, weights_df) = df

\* the engine ran twice with an override table and changed the uploaded table
C7_Witness ==
    /\ calls = 2 /\ df # df_out
    /\ ~absent_or_empty(arrivals) /\ ~absent_or_empty(weights_df)
    /\ \E i \in 1..Len(df) : df[i].AP # df_out[i].AP

\* C8: without arrivals (absent or empty) the unit table comes back with
\* every field of every unit unchanged; with arrivals, every unit that has no
\* arrival rows keeps the AP of the input table.
C8_PassThrough ==
    calls >= 1 =>
        /\ absent_or_empty(arrivals) => df = df_out
        /\ ~absent_or_empty(arrivals) =>
              /\ Len(df) = Len(df_out)
              /\ \A i \in 1..Len(df_out) :
                    RecordsOf(df_out[i].County) = {} => df[i].AP = df_out[i].AP

\* a table with one unit fed by arrivals and one unit without arrival rows
C8_Witness ==
    /\ calls >= 1 /\ ~absent_or_empty(arrivals) /\ Len(df) = 2
    /\ RecordsOf(df_out[1].County) # {} /\ df[1].AP # df_out[1].AP
    /\ RecordsOf(df_out[2].County) = {} /\ df[2].AP = df_out[2].AP

\* C9: after a recompute with arrivals every unit row is one consistent
\* record of its AP: Utilization = AP / (FTE_on x P_eff), Backlog_End =
\* Backlog_Start + AP - FTE_on x P_eff, FTE_required = AP / P_eff + 0.30,
\* Gap = FTE_required - FTE_on and RAG = rag(Utilization).
C9_ConsistentRecord ==
    Recomputed =>
        \A i \in 1..Len(df) :
            LET r == df[i]
                cap == Mul(r.FTE_on, r.P_eff)
            IN  /\ r.Utilization = Div(r.AP, cap)
                /\ r.Backlog_End = Sub(Add(r.Backlog_Start, r.AP), cap)
                /\ r.FTE_required = Add(Div(r.AP, r.P_eff), <<3, 10>>)
                /\ r.Gap = Sub(r.FTE_required, r.FTE_on)
                /\ r.RAG = rag(r.Utilization, <<3, 4>>, <<17, 20>>)

\* a unit whose AP the arrivals replaced and whose uploaded dependents were stale
C9_Witness ==
    /\ Recomputed
    /\ \E i \in 1..Len(df) :
          /\ df[i].AP # df_out[i].AP
          /\ GT(df[i].P_eff, Zero) /\ GT(df[i].FTE_on, Zero)
          /\ df[i].FTE_required # df_out[i].FTE_required
          /\ df[i].Gap # df_out[i].Gap
          /\ df[i].RAG # df_out[i].RAG

-----------------------------------------------------------------------------
(* Manual mode as a function of its widgets: SpecManual *)

\* widget values the number inputs admit (min_value, lines 276-306)
ManualWidgets ==
    [fte_on : {R(0), R(10), R(12)}, buffer : {<<3, 10>>}, backlog_start : {R(0)},
     completed_points_base : {R(0), R(9600)}, avg_fte_base : {R(12)},
     wbar_current : {R(0), <<9, 5>>}, wbar_baseline : {R(0), <<17, 10>>},
     ap : {R(0), R(8000), R(9600)}]

InitManual ==
    /\ \E w \in ManualWidgets : manual = [w |-> w, m |-> NoMetrics]
    /\ df_out = <<>> /\ arrivals = NoTable /\ history = NoTable
    /\ weights_df = NoTable /\ df = <<>> /\ s = NoRollup /\ hist_state = <<>>
    /\ event = "init" /\ prevEvent = "none" /\ calls = 0 /\ ragcall = NoRag

RunManual ==
    /\ event = "init"
    /\ manual' = [manual EXCEPT !.m = manual_metrics(manual.w)]
    /\ event' = "manual" /\ prevEvent' = event
    /\ UNCHANGED <<df_out, arrivals, history, weights_df, df, s, hist_state, calls, ragcall>>

NextManual == RunManual

SpecManual == InitManual /\ [][NextManual]_vars

\* the manual path keeps what C6 asks of it
ManualUndefinedOnNonPositive ==
    event = "manual" =>
        /\ LE(manual.m.cap_eff, Zero) => manual.m.util = NaN
        /\ LE(manual.m.p_eff, Zero) =>
              (manual.m.fte_required = NaN /\ manual.m.gap = NaN)
        /\ manual.m.util = NaN => manual.m.rag = ""

-----------------------------------------------------------------------------
(* Claims about the session ledger (Spec) *)

\* C2: every "Append snapshot" for period p over N units lengthens the
\* ledger by exactly N + 1 rows at its end, N unit rows and one state row,
\* all tagged p; the rows already there keep content and position, also when
\* p repeats a period of the ledger; no other action touches the ledger.
C2_PureAppend ==
    [][ /\ calls' = calls => hist_state' = hist_state
        /\ calls' = calls + 1 =>
              LET old == Len(hist_state)
                  n == Len(df_out)
              IN  /\ Len(hist_state') = old + n + 1
                  /\ SubSeq(hist_state', 1, old) = hist_state
                  /\ \E p \in Periods :
                        /\ \A k \in 1..n :
                              /\ hist_state'[old + k].Level = "County"
                              /\ hist_state'[old + k].Period = p
                              /\ hist_state'[old + k].County = df_out[k].County
                        /\ hist_state'[old + n + 1].Level = "State"
                        /\ hist_state'[old + n + 1].Period = p ]_vars

\* two snapshots of the same period appended after a seeded history
C2_Witness ==
    /\ calls = 2 /\ history.present /\ Len(df_out) = 2
    /\ Len(hist_state) = Len(history.rows) + 2 * (Len(df_out) + 1)
    /\ hist_state[1] = history.rows[1]
    /\ hist_state[Len(hist_state)].Period = "2025 Q4"
    /\ hist_state[Len(hist_state) - Len(df_out) - 1].Period = "2025 Q4"

\* C10: when "Append snapshot" follows "Recompute using edited weights", the
\* rows appended carry the recomputed metrics, not those of the uploaded table.
C10_SnapshotOfRecompute ==
    (event = "append" /\ prevEvent = "recompute") =>
        LET recomputed == recompute_from_arrivals(df_out, arrivals, weights_df)
            n == Len(df_out)
            p == hist_state[Len(hist_state)].Period
        IN  SubSeq(hist_state, Len(hist_state) - n, Len(hist_state))
                = snap(recomputed, p) \o <<state_row(recomputed, p)>>

====
